---- MODULE Spec2Model ----
(***************************************************************************)
(* Fleet supervisor and per-agent behavior engine of the griefer bot.      *)
(* The repository holds two revisions of the program: src/depster.js       *)
(* ("Overhaul 2.0") and src/unnamed/part_000 (the earlier overhaul).  The   *)
(* variable rev fixes, for a whole behaviour, which of the two is running. *)
(***************************************************************************)
EXTENDS Integers, Sequences, FiniteSets, TLC

\* ------------------------------------------------------------------ bounds
MaxUnits == 2

\* --------------------------------------------------------------- constants
null == "null"
Revisions == {"depster", "part_000"}
\* `AuthBot-${Math.floor(Math.random() * 10000)}`
TempNames == {"AuthBot-1"}
\* lines of accountsList.txt (names appended after earlier authentications)
AccountNames == {"Bob"}
\* names the remote server assigns at login (bot.username after 'spawn')
Nicknames == {"Bob", "Carol"}
Handles == TempNames \cup AccountNames \cup Nicknames
Units == 1..MaxUnits
ModeCommands == {"follow", "grief", "trap"}
Commands == ModeCommands \cup {"clearmap", "stop", "chat"}
Players == {"Bob", "Eve"}
ExitCodes == {0, 1}

VARIABLES
    rev,            \* which revision of the program runs
    activeWorkers,  \* the identity map, a JS Map in insertion order
    units,          \* the live worker threads, oldest first; a Worker object
                    \* is named by its place here, and the places close up
                    \* when a worker exits
    timers,         \* pending setTimeout respawn callbacks, per handle
    io,             \* events emitted to the control surface by the last handler
    posted,         \* messages posted to workers by the last handler
    last            \* the handler that ran last, with its inputs and locals

supVars == <<activeWorkers, units, timers, io, posted, last>>

\* one worker thread (a unit) and the world its bot is connected to
VARIABLES
    alive,      \* the worker thread runs: no process.exit, no uncaught exception
    entity,     \* bot.entity exists: the 'spawn' event has fired
    state,      \* bot.state without lastDig: target, mode, clearMapAngle, isTrapping
    sinceDig,   \* Date.now() - bot.state.lastDig in time steps, saturated
    sinceAct,   \* history: the time steps since the start of the last
                \* griefLogic invocation that went on to act, saturated
    sprint,     \* bot.controlState.sprint
    goal,       \* the kind of goal bot.pathfinder holds, "none" after stop()
    inventory,  \* whether the inventory holds a cfg.trapBlock item
    blocks,     \* the loaded blocks of the world, by position
    tasks,      \* the async invocations suspended at an await
    sent,       \* messages sent to the parent by the last handler
    acts,       \* remote actions started by the last handler
    ulast       \* the unit handler that ran last, with its inputs

unitVars ==
    <<alive, entity, state, sinceDig, sinceAct, sprint, goal, inventory, blocks,
      tasks, sent, acts, ulast>>

vars == <<rev, supVars, unitVars>>

\* ------------------------------------------------------- JS Map operations
MapHas(m, k) == \E i \in 1..Len(m) : m[i].key = k
MapIndex(m, k) == CHOOSE i \in 1..Len(m) : m[i].key = k
MapGet(m, k) == m[MapIndex(m, k)]
MapDelete(m, k) == SelectSeq(m, LAMBDA e : e.key # k)
\* Map.prototype.set: an existing key keeps its position, a new key is appended
MapSet(m, k, w, f) ==
    LET e == [key |-> k, worker |-> w, finalUsername |-> f]
    IN  IF MapHas(m, k) THEN [m EXCEPT ![MapIndex(m, k)] = e] ELSE Append(m, e)
\* Array.from(activeWorkers.values()).map(w => w.worker)
MapWorkers(m) == [i \in 1..Len(m) |-> m[i].worker]
KeysOf(m, w) == {i \in 1..Len(m) : m[i].worker = w}

\* ------------------------------------------------------------------ events
Ev(type, a, b) == [type |-> type, a |-> a, b |-> b]
Log(bot, text) == Ev("log", bot, text)
Cmd(command, target, message, angle) ==
    [type |-> "command", command |-> command, target |-> target,
     message |-> message, angle |-> angle]
Post(w, msg) == [to |-> w, msg |-> msg]
\* an angle as a fraction num/den of a full turn (2 * Math.PI)
NoAngle == [num |-> 0, den |-> 0]

\* new Worker(__filename, {workerData: {username, sharedConfig, isAuthWorker}})
NewUnit(username, isAuthWorker) ==
    [username |-> username, isAuthWorker |-> isAuthWorker, nickname |-> null,
     terminated |-> FALSE]
HasFree(un) == Len(un) < MaxUnits
FreeCount(un) == MaxUnits - Len(un)
NewWorker(un) == Len(un) + 1
Live(w) == w \in 1..Len(units)
\* the map and the worker list once worker w is gone
RemoveAt(q, w) == [i \in 1..(Len(q) - 1) |-> IF i < w THEN q[i] ELSE q[i + 1]]
Renumber(m, w) ==
    [i \in 1..Len(m) |->
        IF m[i].worker > w THEN [m[i] EXCEPT !.worker = @ - 1] ELSE m[i]]

\* the handler that ran last: its name, its inputs and its locals
LastBase ==
    [op |-> "start", unit |-> 0, handle |-> null, nick |-> null, code |-> 0,
     had |-> FALSE, auth |-> FALSE, key |-> null, recorded |-> null,
     terminated |-> FALSE, command |-> null, target |-> null, message |-> null]

\* ----------------------------------------------------------- spawnWorkerFor
spawnWorkerForNoCheck(aw, un, username, isAuthWorker) ==
    IF ~HasFree(un)
    THEN [aw |-> aw, units |-> un, io |-> <<Log("System", "already running")>>]
    ELSE [aw |-> MapSet(aw, username, NewWorker(un), null),
          units |-> Append(un, NewUnit(username, isAuthWorker)),
          io |-> <<Log("System", "Spawned worker")>>]

spawnWorkerFor(aw, un, username, isAuthWorker) ==
    IF MapHas(aw, username)
    THEN [aw |-> aw, units |-> un, io |-> <<Log("System", "already running")>>]
    ELSE [aw |-> MapSet(aw, username, NewWorker(un), null),
          units |-> Append(un, NewUnit(username, isAuthWorker)),
          io |-> <<Log("System", "Spawned worker")>>]

\* readAccountsFile().forEach(u => spawnWorkerFor(u, false))
RECURSIVE Startup(_, _, _)
Startup(file, aw, un) ==
    IF file = <<>> THEN [aw |-> aw, units |-> un]
    ELSE Startup(Tail(file), spawnWorkerFor(aw, un, Head(file), FALSE).aw,
                 spawnWorkerFor(aw, un, Head(file), FALSE).units)

\* the contents of accountsList.txt at startup (a name may be listed twice)
AccountFiles == {<<>>, <<"Bob">>, <<"Bob", "Bob">>}

\* ------------------------------------------------------ the unit's world
\* positions are <<x, y, z>>, relative to the target's floored position
Plus(p, q) == <<p[1] + q[1], p[2] + q[2], p[3] + q[3]>>
Minus(p, q) == <<p[1] - q[1], p[2] - q[2], p[3] - q[3]>>
Scaled(p, k) == <<p[1] * k, p[2] * k, p[3] * k>>
\* the square of Vec3.distanceTo
Dist2(p, q) ==
    (p[1] - q[1]) * (p[1] - q[1]) + (p[2] - q[2]) * (p[2] - q[2])
    + (p[3] - q[3]) * (p[3] - q[3])

\* const trapOffsets = []: floor ring, two wall layers, roof, in push order
FloorOffsets ==
    << <<-1, -1, -1>>, <<-1, -1, 0>>, <<-1, -1, 1>>, <<0, -1, -1>>,
       <<0, -1, 1>>, <<1, -1, -1>>, <<1, -1, 0>>, <<1, -1, 1>> >>
WallOffsets(y) ==
    << <<-1, y, -1>>, <<-1, y, 1>>, <<1, y, -1>>, <<1, y, 1>>,
       <<0, y, -1>>, <<0, y, 1>>, <<-1, y, 0>>, <<1, y, 0>> >>
RoofOffsets ==
    << <<-1, 2, -1>>, <<-1, 2, 0>>, <<-1, 2, 1>>, <<0, 2, -1>>, <<0, 2, 0>>,
       <<0, 2, 1>>, <<1, 2, -1>>, <<1, 2, 0>>, <<1, 2, 1>> >>
trapOffsets == FloorOffsets \o WallOffsets(0) \o WallOffsets(1) \o RoofOffsets

\* the loaded part of the world: a slice of the enclosure's box, the
\* target's column and the column next to it; bot.blockAt gives null
\* anywhere else
WorldPos == {<<x, y, 0>> : x \in {0, 1}, y \in {-1, 0, 1, 2}}
TargetPos == <<0, 0, 0>>
\* a world of dirt around the target's column, bedrock under the target,
\* with the positions of E left empty
World(E) ==
    [p \in WorldPos |->
        IF p = <<0, -1, 0>> THEN "bedrock"
        ELSE IF p \in E \cup {<<0, 0, 0>>, <<0, 1, 0>>} THEN "air"
        ELSE "dirt"]
\* the target stands on a platform under a roof, and the wall beside it
\* is open
Worlds == {World({<<1, 0, 0>>, <<1, 1, 0>>})}
\* where the agent stands: within 4.5 of the target, or farther from every
\* loaded block than maxDig
NearPos == <<2, 0, 0>>
FarPos == <<10, 0, 0>>

\* a goal of the pathfinder: its kind, the entity followed, the block or the
\* starting point, the direction, and twice the range
NoGoal ==
    [kind |-> "none", name |-> null, at |-> <<0, 0, 0>>, angle |-> NoAngle, range2 |-> 0]
GoalFollow(name, halves) ==
    [NoGoal EXCEPT !.kind = "GoalFollow", !.name = name, !.range2 = halves]
GoalBlock(p) == [NoGoal EXCEPT !.kind = "GoalBlock", !.at = p]
\* new GoalXZ(x + 10000 * Math.cos(angle), z + 10000 * Math.sin(angle))
GoalXZ(from, angle) == [NoGoal EXCEPT !.kind = "GoalXZ", !.at = from, !.angle = angle]

\* bot.state = { target: null, mode: null, lastDig: 0, clearMapAngle: 0,
\*               isTrapping: false }
InitialState ==
    [target |-> null, mode |-> null, clearMapAngle |-> [num |-> 0, den |-> 1],
     isTrapping |-> FALSE]

\* what a handler reads of the world when it runs: bot.players[name] for
\* the name it looks up (absent, listed without an entity, or visible),
\* bot.entity.position, bot.pathfinder.isMoving(), and whether bot.creative
\* is set
NoEnv == [seen |-> "absent", pos |-> NearPos, moving |-> FALSE, creative |-> TRUE]
Presence == {"absent", "listed", "visible"}

ULastBase ==
    [op |-> "start", command |-> null, target |-> null, outcome |-> null,
     env |-> NoEnv, before |-> [mode |-> null, isTrapping |-> FALSE]]

\* the unit the supervisor's specification leaves alone
InitIdleUnit ==
    /\ alive = TRUE
    /\ entity = FALSE
    /\ state = InitialState
    /\ sinceDig = 0
    /\ sinceAct = 0
    /\ sprint = FALSE
    /\ goal = NoGoal.kind
    /\ inventory = FALSE
    /\ blocks = World({})
    /\ tasks = <<>>
    /\ sent = <<>>
    /\ acts = <<>>
    /\ ulast = ULastBase

InitSupervisor ==
    /\ rev \in Revisions
    /\ \E file \in AccountFiles :
         /\ activeWorkers = Startup(file, <<>>, <<>>).aw
         /\ units = Startup(file, <<>>, <<>>).units
    /\ timers = [k \in Handles |-> 0]
    /\ io = <<>>
    /\ posted = <<>>
    /\ last = LastBase

Init == InitSupervisor /\ InitIdleUnit

RECURSIVE SumTimers(_, _)
SumTimers(t, S) ==
    IF S = {} THEN 0
    ELSE t[CHOOSE x \in S : TRUE] + SumTimers(t, S \ {CHOOSE x \in S : TRUE})
TimerCount == SumTimers(timers, Handles)

\* socket.on('spawn-auth-bot')
SpawnAuthBot(tempUsername) ==
    /\ FreeCount(units) > TimerCount
    /\ activeWorkers' = spawnWorkerFor(activeWorkers, units, tempUsername, TRUE).aw
    /\ units' = spawnWorkerFor(activeWorkers, units, tempUsername, TRUE).units
    /\ io' = spawnWorkerFor(activeWorkers, units, tempUsername, TRUE).io
             \o <<Ev("bot-online", tempUsername, "Authenticating...")>>
    /\ last' = [LastBase EXCEPT !.op = "spawn-auth-bot", !.handle = tempUsername,
                                !.had = MapHas(activeWorkers, tempUsername),
                                !.auth = TRUE]
    /\ posted' = <<>>
    /\ UNCHANGED <<rev, timers>>
    /\ UNCHANGED unitVars

\* the setTimeout callback set by the exit handler
RespawnTimer(key) ==
    /\ timers[key] > 0
    /\ MapHas(activeWorkers, key) \/ HasFree(units)
    /\ activeWorkers' = spawnWorkerFor(activeWorkers, units, key, FALSE).aw
    /\ units' = spawnWorkerFor(activeWorkers, units, key, FALSE).units
    /\ io' = <<Log("System", "Respawning worker")>>
             \o spawnWorkerFor(activeWorkers, units, key, FALSE).io
    /\ last' = [LastBase EXCEPT !.op = "timer", !.handle = key,
                                !.had = MapHas(activeWorkers, key)]
    /\ timers' = [timers EXCEPT ![key] = @ - 1]
    /\ posted' = <<>>
    /\ UNCHANGED rev
    /\ UNCHANGED unitVars

\* ------------------------------------------------- worker.on('message', ...)
authenticatedKeepOld(aw, username, isAuthWorker, initialUsername, finalUsername) ==
    IF MapHas(aw, initialUsername)
    THEN IF isAuthWorker
         THEN MapSet(aw, finalUsername, MapGet(aw, initialUsername).worker,
                     finalUsername)
         ELSE MapSet(aw, initialUsername, MapGet(aw, initialUsername).worker,
                     finalUsername)
    ELSE aw

\* case 'authenticated' (depster.js): workerEntry.finalUsername is set in the
\* entry under initialUsername, and an authentication worker's entry is re-keyed
authenticatedDepster(aw, username, isAuthWorker, initialUsername, finalUsername) ==
    IF MapHas(aw, initialUsername)
    THEN IF isAuthWorker
         THEN MapSet(MapDelete(aw, initialUsername), finalUsername,
                     MapGet(aw, initialUsername).worker, finalUsername)
         ELSE MapSet(aw, initialUsername, MapGet(aw, initialUsername).worker,
                     finalUsername)
    ELSE aw

\* case 'authenticated' (part_000): the map's values are bare workers
authenticatedPart000(aw, username, isAuthWorker, initialUsername, finalUsername) ==
    IF username # finalUsername /\ MapHas(aw, username)
    THEN MapSet(MapDelete(aw, username), finalUsername,
                MapGet(aw, username).worker, null)
    ELSE aw

authenticated(aw, username, isAuthWorker, initialUsername, finalUsername) ==
    IF rev = "depster"
    THEN authenticatedDepster(aw, username, isAuthWorker, initialUsername,
                              finalUsername)
    ELSE authenticatedPart000(aw, username, isAuthWorker, initialUsername,
                              finalUsername)

\* io.emit('bot-authenticated', ...) and the log lines that follow it
authenticatedEvents(username, initialUsername, finalUsername) ==
    IF rev = "depster"
    THEN <<Ev("bot-authenticated", initialUsername, finalUsername),
           Log("System", "Authed usrname"), Log("System", "txtfileusername")>>
    ELSE <<Ev("bot-authenticated", username, finalUsername),
           Log(finalUsername, "Authenticated successfully.")>>

\* whether the worker's 'spawn' handler sends the 'authenticated' message
sendsAuthenticated(isAuthWorker) == rev = "depster" \/ isAuthWorker

\* bot.once('spawn') in the worker: bot.username is now the server's name;
\* the supervisor's message handler processes the 'authenticated' message
BotSpawn(w, nickname) ==
    /\ Live(w)
    /\ units[w].nickname = null
    /\ units' = [units EXCEPT ![w].nickname = nickname]
    /\ IF sendsAuthenticated(units[w].isAuthWorker)
       THEN /\ activeWorkers' = authenticated(activeWorkers, units[w].username,
                                    units[w].isAuthWorker, units[w].username, nickname)
            /\ io' = authenticatedEvents(units[w].username, units[w].username, nickname)
            /\ last' = [LastBase EXCEPT !.op = "authenticated", !.unit = w,
                           !.handle = units[w].username, !.nick = nickname,
                           !.had = MapHas(activeWorkers, units[w].username),
                           !.auth = units[w].isAuthWorker]
       ELSE /\ activeWorkers' = activeWorkers
            /\ io' = <<>>
            /\ last' = [LastBase EXCEPT !.op = "login", !.unit = w,
                           !.handle = units[w].username, !.nick = nickname,
                           !.auth = units[w].isAuthWorker]
    /\ posted' = <<>>
    /\ UNCHANGED <<rev, timers>>
    /\ UNCHANGED unitVars

\* ---------------------------------------------------- worker.on('exit', ...)
\* the key of the first entry whose worker is the exited one
exitedBotKey(aw, w) ==
    IF KeysOf(aw, w) = {} THEN null
    ELSE aw[CHOOSE i \in KeysOf(aw, w) : \A j \in KeysOf(aw, w) : i <= j].key

\* exitedBotInfo.finalUsername || exitedBotKey (part_000: exitedBotKey)
offlineUsername(aw, key) ==
    IF rev = "depster" /\ MapGet(aw, key).finalUsername # null
    THEN MapGet(aw, key).finalUsername
    ELSE key

respawnAnyWorker(code, isAuthWorker) == code # 0

\* if (code !== 0 && !isAuthWorker) setTimeout(...)
respawn(code, isAuthWorker) == code # 0 /\ ~isAuthWorker

UnitExit(w, code) ==
    /\ Live(w)
    /\ units[w].terminated => code = 1
    /\ units' = RemoveAt(units, w)
    /\ IF exitedBotKey(activeWorkers, w) # null
       THEN /\ activeWorkers' =
                 Renumber(MapDelete(activeWorkers, exitedBotKey(activeWorkers, w)), w)
            /\ io' = <<Ev("bot-offline",
                          offlineUsername(activeWorkers, exitedBotKey(activeWorkers, w)),
                          null),
                       Log("System", "exited")>>
            /\ timers' = IF respawn(code, units[w].isAuthWorker)
                         THEN [timers EXCEPT ![exitedBotKey(activeWorkers, w)] = @ + 1]
                         ELSE timers
       ELSE /\ activeWorkers' = Renumber(activeWorkers, w)
            /\ io' = <<>>
            /\ timers' = timers
    /\ last' = [LastBase EXCEPT !.op = "exit", !.unit = w, !.code = code,
                   !.handle = units[w].username, !.nick = units[w].nickname,
                   !.auth = units[w].isAuthWorker,
                   !.key = exitedBotKey(activeWorkers, w),
                   !.recorded = IF sendsAuthenticated(units[w].isAuthWorker)
                                THEN units[w].nickname ELSE null,
                   !.terminated = units[w].terminated]
    /\ posted' = <<>>
    /\ UNCHANGED rev
    /\ UNCHANGED unitVars

UnitErrorCleansUp(w) ==
    /\ Live(w)
    /\ activeWorkers' = MapDelete(activeWorkers, exitedBotKey(activeWorkers, w))
    /\ io' = <<Log("System", "Worker error")>>
    /\ last' = [LastBase EXCEPT !.op = "error", !.unit = w,
                   !.handle = units[w].username]
    /\ posted' = <<>>
    /\ UNCHANGED <<rev, units, timers>>
    /\ UNCHANGED unitVars

\* worker.on('error', err => console.error(...))
UnitError(w) ==
    /\ Live(w)
    /\ io' = <<Log("System", "Worker error")>>
    /\ last' = [LastBase EXCEPT !.op = "error", !.unit = w,
                   !.handle = units[w].username]
    /\ posted' = <<>>
    /\ UNCHANGED <<rev, activeWorkers, units, timers>>
    /\ UNCHANGED unitVars

\* Array.from(activeWorkers.values()).find(w => w.finalUsername === botName)
FindFinal(aw, botName) ==
    {i \in 1..Len(aw) : aw[i].finalUsername = botName}
\* let botToUpdate = activeWorkers.get(botName) || Array.from(...).find(...):
\* the place of the entry in the map, 0 if there is none
botToUpdate(aw, botName) ==
    IF MapHas(aw, botName) THEN MapIndex(aw, botName)
    ELSE IF FindFinal(aw, botName) = {} THEN 0
    ELSE CHOOSE i \in FindFinal(aw, botName) : \A j \in FindFinal(aw, botName) : i <= j

\* case 'status-update': depster.js looks the entry up and names the update
\* botToUpdate.finalUsername || botName; part_000 names it botName
statusUpdate(aw, botName, status) ==
    IF rev = "depster"
    THEN IF botToUpdate(aw, botName) = 0 THEN <<>>
         ELSE <<Ev("bot-status-update",
                   IF aw[botToUpdate(aw, botName)].finalUsername # null
                   THEN aw[botToUpdate(aw, botName)].finalUsername
                   ELSE botName,
                   status)>>
    ELSE <<Ev("bot-status-update", botName, status)>>

\* the statuses a unit reports
Statuses == {"Idle", "Following Bob"}

\* a worker that has spawned sends a status-update; send() tags it with
\* bot.username, the name the server gave at login
StatusUpdate(w, status) ==
    /\ Live(w)
    /\ units[w].nickname # null
    /\ io' = statusUpdate(activeWorkers, units[w].nickname, status)
    /\ last' = [LastBase EXCEPT !.op = "status-update", !.unit = w,
                   !.handle = units[w].username, !.nick = units[w].nickname,
                   !.auth = units[w].isAuthWorker,
                   !.key = exitedBotKey(activeWorkers, w),
                   !.recorded = IF sendsAuthenticated(units[w].isAuthWorker)
                                THEN units[w].nickname ELSE null,
                   !.message = status]
    /\ posted' = <<>>
    /\ UNCHANGED <<rev, activeWorkers, units, timers>>
    /\ UNCHANGED unitVars

\* ------------------------------------------------ control-surface commands
ClearmapAngleZero(index, n) == [num |-> 0, den |-> n]

\* (index / workers.length) * 2 * Math.PI, kept as the fraction of a turn
ClearmapAngle(index, n) == [num |-> index, den |-> n]

\* workers.forEach((worker, index) => worker.postMessage({... angle}))
ClearmapPosts(aw) ==
    [i \in 1..Len(aw) |->
        Post(MapWorkers(aw)[i],
             Cmd("clearmap", null, null, ClearmapAngle(i - 1, Len(aw))))]

BroadcastFirstOnly(aw, msg) ==
    IF aw = <<>> THEN <<>> ELSE <<Post(aw[1].worker, msg)>>

\* for (const { worker } of activeWorkers.values()) worker.postMessage(msg)
Broadcast(aw, msg) == [i \in 1..Len(aw) |-> Post(aw[i].worker, msg)]

\* socket.on('send-command', data)
SendCommand(command, target) ==
    /\ posted' = IF command = null THEN <<>>
                 ELSE IF command = "clearmap" THEN ClearmapPosts(activeWorkers)
                 ELSE Broadcast(activeWorkers, Cmd(command, target, null, NoAngle))
    /\ io' = IF command = null THEN <<>>
             ELSE <<Log("System", "Received command")>>
    /\ last' = [LastBase EXCEPT !.op = "send-command", !.command = command,
                                !.target = target]
    /\ UNCHANGED <<rev, activeWorkers, units, timers>>
    /\ UNCHANGED unitVars

\* socket.on('send-chat', message)
SendChat(message) ==
    /\ posted' = Broadcast(activeWorkers, Cmd("chat", null, message, NoAngle))
    /\ io' = <<Log("System", "Broadcasting chat")>>
    /\ last' = [LastBase EXCEPT !.op = "send-chat", !.command = "chat",
                                !.message = message]
    /\ UNCHANGED <<rev, activeWorkers, units, timers>>
    /\ UNCHANGED unitVars

\* socket.on('disconnect-all'): worker.terminate() for every entry
DisconnectAll ==
    /\ units' = [w \in 1..Len(units) |->
                    IF KeysOf(activeWorkers, w) # {}
                    THEN [units[w] EXCEPT !.terminated = TRUE]
                    ELSE units[w]]
    /\ io' = <<Log("System", "Disconnecting all bots")>>
    /\ last' = [LastBase EXCEPT !.op = "disconnect-all"]
    /\ posted' = <<>>
    /\ UNCHANGED <<rev, activeWorkers, timers>>
    /\ UNCHANGED unitVars

\* the data of a 'send-command' event: a mode command with its target, a
\* command without parameters, or no command at all
CommandData ==
    {[command |-> "follow", target |-> "Eve"], [command |-> "stop", target |-> null],
     [command |-> "clearmap", target |-> null], [command |-> null, target |-> null]}

Next ==
    \/ \E t \in TempNames : SpawnAuthBot(t)
    \/ \E k \in Handles : RespawnTimer(k)
    \/ \E w \in Units, n \in Nicknames : BotSpawn(w, n)
    \/ \E w \in Units, c \in ExitCodes : UnitExit(w, c)
    \/ \E w \in Units : UnitError(w)
    \/ \E w \in Units, st \in Statuses : StatusUpdate(w, st)
    \/ \E d \in CommandData : SendCommand(d.command, d.target)
    \/ SendChat("hi")
    \/ DisconnectAll

Spec == Init /\ [][Next]_vars

\* the respawn timer is a setTimeout callback: once set it fires
FairSpec == Spec /\ \A k \in Handles : WF_vars(RespawnTimer(k))

\* the model's bound on worker threads never blocks a respawn timer
TypeOK ==
    /\ \A k \in Handles : timers[k] \in 0..1
    /\ FreeCount(units) >= TimerCount

\* ==================================================== the worker thread
\* cfg.scanRadius, cfg.maxDig and cfg.cps of sharedConfig
scanRadius == 8
maxDig == 8
cps == IF rev = "depster" THEN 20 ELSE 13
\* sharedConfig.protectedNames, and cfg.trapBlock
protectedNames ==
    {"light_gray_concrete", "smooth_quartz_slab", "water", "barrier", "bedrock"}
trapBlock == "dirt"

\* the unit's own variables, as the record a handler works on; a handler
\* starts with nothing sent and no remote action started
Cur ==
    [alive |-> alive, entity |-> entity, state |-> state, sinceDig |-> sinceDig,
     sinceAct |-> sinceAct, sprint |-> sprint, goal |-> goal, inventory |-> inventory,
     blocks |-> blocks, tasks |-> tasks, sent |-> <<>>, acts |-> <<>>]

SetUnit(u) ==
    /\ alive' = u.alive
    /\ entity' = u.entity
    /\ state' = u.state
    /\ sinceDig' = u.sinceDig
    /\ sinceAct' = u.sinceAct
    /\ sprint' = u.sprint
    /\ goal' = u.goal
    /\ inventory' = u.inventory
    /\ blocks' = u.blocks
    /\ tasks' = u.tasks
    /\ sent' = u.sent
    /\ acts' = u.acts

\* parentPort.postMessage({ ...msg, bot: botName })
send(u, type, text) == [u EXCEPT !.sent = Append(@, [type |-> type, text |-> text])]
log(u, text) == send(u, "log", text)
errSilent(u, e) == u
err(u, e) == send(u, "error", e)
updateStatus(u, status) == send(u, "status-update", status)
\* a call into the remote connection: pathfinder, look, dig, place, equip, chat
act(u, name, arg) == [u EXCEPT !.acts = Append(@, [name |-> name, arg |-> arg])]

\* bot.pathfinder.setGoal(g): the goal goes to the pathfinder (acts holds
\* it in full), and the unit is left navigating toward a goal of that kind
setGoal(u, g) == act([u EXCEPT !.goal = g.kind], "setGoal", g)
pathfinderStop(u) == act([u EXCEPT !.goal = NoGoal.kind], "stop", NoGoal)
\* bot.controlState.sprint is written by depster.js only
setSprint(u, on) == IF rev = "depster" THEN [u EXCEPT !.sprint = on] ELSE u

resetStateKeepGuard(u) ==
    updateStatus(
        pathfinderStop(
            setSprint([u EXCEPT !.state.target = null, !.state.mode = null], FALSE)),
        "Idle")

\* const resetState = () => { ... }
resetState(u) ==
    updateStatus(
        pathfinderStop(
            setSprint([u EXCEPT !.state.target = null, !.state.mode = null,
                                !.state.isTrapping = FALSE], FALSE)),
        "Idle")

Capitalised(command) ==
    CASE command = "follow" -> "Follow"
      [] command = "grief" -> "Grief"
      [] command = "trap" -> "Trap"

modeCommandResetFirst(u, msg, env) ==
    IF msg.target = null THEN log(resetState(u), "Target player name is required.")
    ELSE IF env.seen = "absent"
    THEN log(resetState(u), "Can't see target player " \o msg.target \o ".")
    ELSE [updateStatus(
              log([resetState(u) EXCEPT !.state.target = msg.target,
                                        !.state.mode = msg.command],
                  "Executing '" \o msg.command \o "' on " \o msg.target \o "."),
              Capitalised(msg.command) \o "ing " \o msg.target)
          EXCEPT !.alive = ~(rev = "part_000" /\ msg.command = "trap")]

\* case 'follow' / 'grief' / 'trap' of the command handler; in part_000 a
\* 'trap' command ends by calling getBlockInHand, which is declared inside
\* createBot and is not in scope here: the ReferenceError is uncaught and
\* ends the worker thread
modeCommand(u, msg, env) ==
    IF msg.target = null THEN log(u, "Target player name is required.")
    ELSE IF env.seen = "absent"
    THEN log(u, "Can't see target player " \o msg.target \o ".")
    ELSE [updateStatus(
              log([resetState(u) EXCEPT !.state.target = msg.target,
                                        !.state.mode = msg.command],
                  "Executing '" \o msg.command \o "' on " \o msg.target \o "."),
              Capitalised(msg.command) \o "ing " \o msg.target)
          EXCEPT !.alive = ~(rev = "part_000" /\ msg.command = "trap")]

onMessageNoGate(u, msg, env) ==
    CASE msg.command \in ModeCommands -> modeCommand(u, msg, env)
      [] msg.command = "clearmap" ->
           updateStatus(
               log([resetState(u) EXCEPT !.state.mode = "clearmap",
                                         !.state.clearMapAngle = msg.angle],
                   "Initializing clearmap protocol"),
               "Clearing Map")
      [] msg.command = "stop" -> resetState(log(u, "Stopping current action."))
      [] msg.command = "chat" -> act(u, "chat", msg.message)
      [] OTHER -> u

\* parentPort.on('message', (msg) => { ... })
onMessage(u, msg, env) ==
    IF ~u.entity THEN u
    ELSE CASE msg.command \in ModeCommands -> modeCommand(u, msg, env)
           [] msg.command = "clearmap" ->
                updateStatus(
                    log([resetState(u) EXCEPT !.state.mode = "clearmap",
                                              !.state.clearMapAngle = msg.angle],
                        "Initializing clearmap protocol"),
                    "Clearing Map")
           [] msg.command = "stop" -> resetState(log(u, "Stopping current action."))
           [] msg.command = "chat" -> act(u, "chat", msg.message)
           [] OTHER -> u

\* ------------------------------------------------------------- griefLogic
blockAt(b, p) == IF p \in DOMAIN b THEN b[p] ELSE null
boundingBox(name) == IF name \in {"air", "water"} THEN "empty" ELSE "block"
\* the order of the scan loops: dx, then dy, then dz
ScanBefore(p, q) ==
    \/ p[1] < q[1]
    \/ p[1] = q[1] /\ p[2] < q[2]
    \/ p[1] = q[1] /\ p[2] = q[2] /\ p[3] < q[3]
InScanCube(p) ==
    \A c \in 1..3 : p[c] - TargetPos[c] \in (0 - scanRadius)..scanRadius
\* the blocks pushed by the scan: loaded, within maxDig of the agent, not
\* air, not protected
Candidates(b, pos) ==
    {p \in DOMAIN b :
        /\ InScanCube(p)
        /\ Dist2(pos, p) <= maxDig * maxDig
        /\ b[p] # "air"
        /\ b[p] \notin protectedNames}
\* blocks[0] after the stable sort by distance from the agent
NearestBlock(b, pos) ==
    CHOOSE p \in Candidates(b, pos) :
        \A q \in Candidates(b, pos) \ {p} :
            \/ Dist2(pos, p) < Dist2(pos, q)
            \/ Dist2(pos, p) = Dist2(pos, q) /\ ScanBefore(p, q)
\* Date.now() - bot.state.lastDig < clickDelay, clickDelay = 1000 / cps, with
\* the elapsed time counted in steps of 50 ms
RateLimited(since) == since * 50 * cps < 1000

Task(kind, pc, i, a, at) == [kind |-> kind, pc |-> pc, i |-> i, a |-> a, at |-> at]
\* the suspended invocations are a bag: any of them may resume next. They are
\* kept as a sequence ordered by Rank so that a bag has one representation
PcRank(pc) ==
    CASE pc = "grant" -> 1 [] pc = "equip" -> 2 [] pc = "place" -> 3
      [] pc = "look" -> 4 [] pc = "dig" -> 5
Rank(t) == (PcRank(t.pc) * 100 + t.i) * 10 + t.a
RECURSIVE Insert(_, _)
Insert(q, t) ==
    IF q = <<>> THEN <<t>>
    ELSE IF Rank(t) <= Rank(Head(q)) THEN <<t>> \o q
    ELSE <<Head(q)>> \o Insert(Tail(q), t)
suspend(u, t) == [u EXCEPT !.tasks = Insert(@, t)]

griefLogicNoStamp(u, env) ==
    IF Candidates(u.blocks, env.pos) = {} THEN u
    ELSE IF RateLimited(u.sinceDig) THEN u
    ELSE suspend(act([u EXCEPT !.sinceAct = 0], "lookAt",
                     NearestBlock(u.blocks, env.pos)),
                 Task("grief", "look", 0, 0, NearestBlock(u.blocks, env.pos)))

\* griefLogic of part_000, up to its first await: bot.state.lastDig is set
\* before the await (and the history clock sinceAct restarts with it)
griefLogicPart000(u, env) ==
    IF Candidates(u.blocks, env.pos) = {} THEN u
    ELSE IF RateLimited(u.sinceDig) THEN u
    ELSE suspend(act([u EXCEPT !.sinceDig = 0, !.sinceAct = 0], "lookAt",
                     NearestBlock(u.blocks, env.pos)),
                 Task("grief", "look", 0, 0, NearestBlock(u.blocks, env.pos)))

\* griefLogic of depster.js: after setGoal, the loop bound `scanRadius` is
\* an undeclared identifier (the values live in cfg), so the call throws a
\* ReferenceError, which the tick's catch reports
griefLogicDepster(u) ==
    err(setGoal(u, GoalBlock(TargetPos)), "ReferenceError: scanRadius is not defined")

\* ---------------------------------------------------------------- trapLogic
adjacentOffsets ==
    << <<0, -1, 0>>, <<0, 1, 0>>, <<-1, 0, 0>>, <<1, 0, 0>>, <<0, 0, -1>>, <<0, 0, 1>> >>
\* part_000: the neighbours tried by the || chain of bot.blockAt calls
placeAgainstOffsets ==
    << <<0, -1, 0>>, <<1, 0, 0>>, <<-1, 0, 0>>, <<0, 0, 1>>, <<0, 0, -1>> >>

trapCompleteKeepMode(u) ==
    [updateStatus(
         log(u, "Trap for " \o u.state.target \o " should be complete."),
         "Following " \o u.state.target)
     EXCEPT !.state.isTrapping = FALSE]

\* the end of trapLogic
trapComplete(u) ==
    [updateStatus(
         log([u EXCEPT !.state.mode = "follow"],
             "Trap for " \o u.state.target \o " should be complete."),
         "Following " \o u.state.target)
     EXCEPT !.state.isTrapping = FALSE]

trapAbortKeepGuard(u) ==
    updateStatus(
        [log(u, IF rev = "depster"
                THEN "Cannot find or get " \o trapBlock \o " to trap with. Aborting."
                ELSE "Cannot find " \o trapBlock \o " to trap with.")
         EXCEPT !.state.mode = null],
        "Idle")

\* if (!trapBlockItem) { ... return; }
trapAbort(u) ==
    updateStatus(
        [log(u, IF rev = "depster"
                THEN "Cannot find or get " \o trapBlock \o " to trap with. Aborting."
                ELSE "Cannot find " \o trapBlock \o " to trap with.")
         EXCEPT !.state.isTrapping = FALSE, !.state.mode = null],
        "Idle")

RECURSIVE visitOffset(_, _), searchAdjacent(_, _, _)
\* depster.js: the adjacency loop of offset i from neighbour a on; it stops
\* at the first await bot.placeBlock
searchAdjacent(u, i, a) ==
    IF a > Len(adjacentOffsets) THEN visitOffset(u, i + 1)
    ELSE IF boundingBox(blockAt(u.blocks,
                Plus(Plus(TargetPos, trapOffsets[i]), adjacentOffsets[a]))) = "block"
            /\ blockAt(u.blocks,
                Plus(Plus(TargetPos, trapOffsets[i]), adjacentOffsets[a])) # null
    THEN suspend(
            act(u, "placeBlock",
                <<Plus(Plus(TargetPos, trapOffsets[i]), adjacentOffsets[a]),
                  Scaled(adjacentOffsets[a], -1)>>),
            Task("trap", "place", i, a,
                 Plus(Plus(Plus(TargetPos, trapOffsets[i]), adjacentOffsets[a]),
                      Scaled(adjacentOffsets[a], -1))))
    ELSE searchAdjacent(u, i, a + 1)

\* the first loaded neighbour of p in the order of part_000's || chain
PlaceAgainst(b, p) ==
    IF \A a \in 1..Len(placeAgainstOffsets) :
           blockAt(b, Plus(p, placeAgainstOffsets[a])) = null
    THEN 0
    ELSE CHOOSE a \in 1..Len(placeAgainstOffsets) :
            /\ blockAt(b, Plus(p, placeAgainstOffsets[a])) # null
            /\ \A c \in 1..(a - 1) : blockAt(b, Plus(p, placeAgainstOffsets[c])) = null

\* part_000's face vector:
\* offset.minus(placeAgainst.position.minus(playerPos)).scaled(-1)
FacePart000(offset, refPos) ==
    Scaled(Minus(offset, Minus(refPos, TargetPos)), -1)

\* the for loop over trapOffsets from offset i on, up to the next await or
\* to the end of trapLogic
visitOffset(u, i) ==
    IF i > Len(trapOffsets) THEN trapComplete(u)
    ELSE IF rev = "depster"
    THEN IF blockAt(u.blocks, Plus(TargetPos, trapOffsets[i])) # null
            /\ boundingBox(blockAt(u.blocks, Plus(TargetPos, trapOffsets[i]))) = "empty"
         THEN searchAdjacent(u, i, 1)
         ELSE visitOffset(u, i + 1)
    ELSE IF blockAt(u.blocks, Plus(TargetPos, trapOffsets[i])) = "air"
            /\ PlaceAgainst(u.blocks, Plus(TargetPos, trapOffsets[i])) # 0
            /\ blockAt(u.blocks,
                  Plus(Plus(TargetPos, trapOffsets[i]),
                       placeAgainstOffsets[PlaceAgainst(u.blocks,
                           Plus(TargetPos, trapOffsets[i]))])) # "air"
         THEN suspend(
                act(u, "placeBlock",
                    <<Plus(Plus(TargetPos, trapOffsets[i]),
                           placeAgainstOffsets[PlaceAgainst(u.blocks,
                               Plus(TargetPos, trapOffsets[i]))]),
                      FacePart000(trapOffsets[i],
                          Plus(Plus(TargetPos, trapOffsets[i]),
                               placeAgainstOffsets[PlaceAgainst(u.blocks,
                                   Plus(TargetPos, trapOffsets[i]))]))>>),
                Task("trap", "place", i, 0,
                     Plus(Plus(Plus(TargetPos, trapOffsets[i]),
                               placeAgainstOffsets[PlaceAgainst(u.blocks,
                                   Plus(TargetPos, trapOffsets[i]))]),
                          FacePart000(trapOffsets[i],
                              Plus(Plus(TargetPos, trapOffsets[i]),
                                   placeAgainstOffsets[PlaceAgainst(u.blocks,
                                       Plus(TargetPos, trapOffsets[i]))])))))
         ELSE visitOffset(u, i + 1)

\* getBlockInHand up to its await, and trapLogic up to its own: an item in
\* the inventory is returned at once and trapLogic goes on to bot.equip;
\* otherwise bot.creative, if set, is asked for a stack; otherwise null is
\* returned and trapLogic aborts
getBlockInHand(u, env) ==
    IF u.inventory
    THEN suspend(act(u, "equip", trapBlock), Task("trap", "equip", 0, 0, null))
    ELSE IF env.creative
    THEN suspend(act(u, "setInventorySlot", trapBlock),
                 Task("trap", "grant", 0, 0, null))
    ELSE trapAbort(u)

\* async function trapLogic(targetEntity), up to its first await;
\* distance > 4.5 as 4 * distance^2 > 81
trapLogic(u, env) ==
    IF u.state.isTrapping THEN u
    ELSE IF 4 * Dist2(env.pos, TargetPos) > 81
    THEN setGoal(u, GoalFollow(u.state.target, 7))
    ELSE getBlockInHand([pathfinderStop(u) EXCEPT !.state.isTrapping = TRUE], env)

\* ------------------------------------------------------------ physicsTick
targetLostKeepMode(u) == updateStatus(u, "Idle")

\* { bot.state.mode = null; updateStatus('Idle'); return; }
targetLost(u) == updateStatus([u EXCEPT !.state.mode = null], "Idle")
\* player?.entity
HasEntity(name, env) == name # null /\ env.seen = "visible"

\* bot.on('physicsTick', async () => { ... }), up to its first await
physicsTick(u, env) ==
    CASE u.state.mode = null -> u
      [] u.state.mode = "follow" ->
           IF ~HasEntity(u.state.target, env) THEN targetLost(u)
           ELSE setGoal(setSprint(u, TRUE),
                        GoalFollow(u.state.target, IF rev = "depster" THEN 2 ELSE 4))
      [] u.state.mode = "grief" ->
           IF ~HasEntity(u.state.target, env) THEN targetLost(u)
           ELSE IF rev = "depster" THEN griefLogicDepster(setSprint(u, TRUE))
           ELSE griefLogicPart000(
                    setGoal(u, GoalFollow(u.state.target, 2 * (maxDig - 1))), env)
      [] u.state.mode = "trap" ->
           IF ~HasEntity(u.state.target, env) THEN targetLost(u) ELSE trapLogic(u, env)
      [] u.state.mode = "clearmap" ->
           IF ~env.moving
           THEN log(setGoal(setSprint(u, TRUE), GoalXZ(env.pos, u.state.clearMapAngle)),
                    "Set new distant goal in my assigned direction.")
           ELSE setSprint(u, TRUE)

\* ------------------------------------------------- the unit's transitions
MaxTasks == 2
MaxSince == 2

\* the commands the supervisor forwards to a unit
UnitMessages ==
    {Cmd(c, t, null, NoAngle) : c \in ModeCommands, t \in {"Bob", null}}
    \cup {Cmd("clearmap", null, null, [num |-> 1, den |-> 2]),
          Cmd("stop", null, null, NoAngle), Cmd("chat", null, "hi", NoAngle)}

Record(op, command, target, outcome, env) ==
    ulast' = [op |-> op, command |-> command, target |-> target,
              outcome |-> outcome, env |-> env,
              before |-> [mode |-> state.mode, isTrapping |-> state.isTrapping]]

WithoutTask(k) == [Cur EXCEPT !.tasks = RemoveAt(@, k)]

\* bot.once('spawn', ...)
Spawned(isAuthWorker) ==
    /\ alive /\ ~entity
    /\ SetUnit(updateStatus(
                 log(IF sendsAuthenticated(isAuthWorker)
                     THEN send([Cur EXCEPT !.entity = TRUE], "authenticated", "nickname")
                     ELSE [Cur EXCEPT !.entity = TRUE],
                     "Bot online."),
                 "Idle"))
    /\ Record("spawn", null, null, null, NoEnv)

\* bot.on('microsoft-auth-required', ...)
AuthRequired ==
    /\ alive /\ ~entity
    /\ SetUnit(send(Cur, "auth-link", "link"))
    /\ Record("auth-link", null, null, null, NoEnv)

\* what the command handler can read: the player entry of the name given
MessageEnvs(msg) ==
    IF entity /\ msg.command \in ModeCommands /\ msg.target # null
    THEN {[NoEnv EXCEPT !.seen = s] : s \in {"absent", "listed"}}
    ELSE {NoEnv}

\* what a tick can read, according to the mode it runs in
TickEnvs ==
    CASE state.mode = null -> {NoEnv}
      [] state.mode = "follow" -> {[NoEnv EXCEPT !.seen = s] : s \in Presence}
      [] state.mode = "grief" ->
           {[NoEnv EXCEPT !.seen = s, !.pos = p] :
               s \in Presence, p \in {NearPos, FarPos}}
      [] state.mode = "trap" ->
           {[NoEnv EXCEPT !.seen = s, !.pos = p] :
               s \in Presence, p \in {NearPos, FarPos}}
           \cup {[NoEnv EXCEPT !.seen = "visible", !.creative = FALSE]}
      [] state.mode = "clearmap" ->
           {[NoEnv EXCEPT !.moving = m] :
               m \in IF goal = NoGoal.kind THEN {FALSE} ELSE BOOLEAN}

\* parentPort.on('message', ...)
Message(msg, env) ==
    /\ alive
    /\ SetUnit(onMessage(Cur, msg, env))
    /\ Record("command", msg.command, msg.target, null, env)

\* bot.on('physicsTick', ...): the handler runs to its first await; ticks
\* are emitted once the agent is in the world
Tick(env) ==
    /\ alive /\ entity
    /\ LET after == physicsTick(Cur, env)
       IN  Len(after.tasks) <= MaxTasks /\ SetUnit(after)
    /\ Record("tick", null, null, null, env)

\* await bot.creative.setInventorySlot(...) settles: the stack arrives, or
\* the call resolves with no such item in the inventory, or it rejects
ResumeGrant(k, outcome) ==
    /\ alive /\ k \in 1..Len(tasks) /\ tasks[k].pc = "grant"
    /\ SetUnit(
         CASE outcome = "item" ->
                suspend(act(log([WithoutTask(k) EXCEPT !.inventory = TRUE],
                                "Gave myself a stack of " \o trapBlock \o "."),
                            "equip", trapBlock),
                        Task("trap", "equip", 0, 0, null))
           [] outcome = "noitem" ->
                trapAbort(log(WithoutTask(k),
                              "Gave myself a stack of " \o trapBlock \o "."))
           [] outcome = "reject" -> trapAbort(err(WithoutTask(k), "Error")))
    /\ Record("grant", null, null, outcome, NoEnv)

\* await bot.equip(...) settles; a rejection leaves trapLogic through the
\* tick's catch
ResumeEquip(k, outcome) ==
    /\ alive /\ k \in 1..Len(tasks) /\ tasks[k].pc = "equip"
    /\ SetUnit(IF outcome = "ok" THEN visitOffset(WithoutTask(k), 1)
               ELSE err(WithoutTask(k), "Error"))
    /\ Record("equip", null, null, outcome, NoEnv)

\* await bot.placeBlock(referenceBlock, faceVector) settles: it resolves
\* when the block at reference + face changed, which takes an empty loaded
\* position there, and rejects otherwise. In depster.js a placement that
\* resolved is followed by a 50 ms pause (await setTimeout) during which the
\* invocation does nothing: the pause is part of this step
ResumePlace(k, outcome) ==
    /\ alive /\ k \in 1..Len(tasks) /\ tasks[k].pc = "place"
    /\ outcome = "ok" =>
         /\ blockAt(blocks, tasks[k].at) # null
         /\ boundingBox(blockAt(blocks, tasks[k].at)) = "empty"
    /\ SetUnit(
         IF outcome = "ok"
         THEN visitOffset([WithoutTask(k) EXCEPT !.blocks[tasks[k].at] = trapBlock],
                          tasks[k].i + 1)
         ELSE IF rev = "depster"
              THEN searchAdjacent(WithoutTask(k), tasks[k].i, tasks[k].a + 1)
              ELSE visitOffset(WithoutTask(k), tasks[k].i + 1))
    /\ Record("place", null, null, outcome, NoEnv)

\* part_000: await bot.lookAt(...) settles, then bot.dig starts
ResumeLook(k, outcome) ==
    /\ alive /\ k \in 1..Len(tasks) /\ tasks[k].pc = "look"
    /\ SetUnit(IF outcome = "ok"
               THEN suspend(act(WithoutTask(k), "dig", tasks[k].at),
                            Task("grief", "dig", 0, 0, tasks[k].at))
               ELSE WithoutTask(k))
    /\ Record("look", null, null, outcome, NoEnv)

\* part_000: await bot.dig(...) settles
ResumeDig(k, outcome) ==
    /\ alive /\ k \in 1..Len(tasks) /\ tasks[k].pc = "dig"
    /\ SetUnit(IF outcome = "ok"
               THEN [WithoutTask(k) EXCEPT !.blocks[tasks[k].at] = "air"]
               ELSE WithoutTask(k))
    /\ Record("dig", null, null, outcome, NoEnv)

\* the thread after process.exit: nothing of the agent is left
Exited ==
    [alive |-> FALSE, entity |-> FALSE, state |-> InitialState, sinceDig |-> MaxSince,
     sinceAct |-> MaxSince, sprint |-> FALSE, goal |-> NoGoal.kind, inventory |-> FALSE,
     blocks |-> World({}), tasks |-> <<>>, sent |-> <<>>, acts |-> <<>>]

\* bot.on('end', ...): log, then process.exit(1)
ConnectionEnd ==
    /\ alive
    /\ SetUnit(log(Exited, "Disconnected."))
    /\ Record("end", null, null, null, NoEnv)

\* 50 ms of time pass
TimePasses ==
    /\ alive /\ (sinceDig < MaxSince \/ sinceAct < MaxSince)
    /\ sinceDig' = IF sinceDig < MaxSince THEN sinceDig + 1 ELSE sinceDig
    /\ sinceAct' = IF sinceAct < MaxSince THEN sinceAct + 1 ELSE sinceAct
    /\ UNCHANGED <<alive, entity, state, sprint, goal, inventory, blocks, tasks, sent,
                   acts, ulast>>

\* a worker thread just started: createBot() has run, the agent is not in
\* the world yet
InitUnit ==
    /\ rev \in Revisions
    /\ activeWorkers = <<>>
    /\ units = <<>>
    /\ timers = [k \in Handles |-> 0]
    /\ io = <<>>
    /\ posted = <<>>
    /\ last = LastBase
    /\ alive = TRUE
    /\ entity = FALSE
    /\ state = InitialState
    /\ sinceDig = MaxSince
    /\ sinceAct = MaxSince
    /\ sprint = FALSE
    /\ goal = NoGoal.kind
    /\ inventory = FALSE
    /\ blocks \in Worlds
    /\ tasks = <<>>
    /\ sent = <<>>
    /\ acts = <<>>
    /\ ulast = ULastBase

NextUnit ==
    \/ \E a \in BOOLEAN : Spawned(a) /\ UNCHANGED <<rev, supVars>>
    \/ AuthRequired /\ UNCHANGED <<rev, supVars>>
    \/ \E msg \in UnitMessages : \E env \in MessageEnvs(msg) :
          Message(msg, env) /\ UNCHANGED <<rev, supVars>>
    \/ \E env \in TickEnvs : Tick(env) /\ UNCHANGED <<rev, supVars>>
    \/ \E k \in 1..MaxTasks, o \in {"item", "noitem", "reject"} :
          ResumeGrant(k, o) /\ UNCHANGED <<rev, supVars>>
    \/ \E k \in 1..MaxTasks, o \in {"ok", "fail"} :
          ResumeEquip(k, o) /\ UNCHANGED <<rev, supVars>>
    \/ \E k \in 1..MaxTasks, o \in {"ok", "fail"} :
          ResumePlace(k, o) /\ UNCHANGED <<rev, supVars>>
    \/ \E k \in 1..MaxTasks, o \in {"ok", "fail"} :
          ResumeLook(k, o) /\ UNCHANGED <<rev, supVars>>
    \/ \E k \in 1..MaxTasks, o \in {"ok", "fail"} :
          ResumeDig(k, o) /\ UNCHANGED <<rev, supVars>>
    \/ ConnectionEnd /\ UNCHANGED <<rev, supVars>>
    \/ TimePasses /\ UNCHANGED <<rev, supVars>>

SpecUnit == InitUnit /\ [][NextUnit]_vars

\* ------------------------------------------------------------------ claims
InMap(w) == KeysOf(activeWorkers, w) # {}
Emitted(type) == {i \in 1..Len(io) : io[i].type = type}
PostedTo(q, w) == {j \in 1..Len(q) : q[j].to = w}
\* the angle a is i/n of a full turn, i.e. 2*pi*i/n
AngleIs(a, i, n) == a.den # 0 /\ a.num * n = i * a.den
SameAngle(a, b) == a.num * b.den = b.num * a.den

\* C1: every unit that has been spawned and has not exited is the value of
\* exactly one key of the identity map, in every reachable state.
C1_ExactlyOneKeyPerLiveUnit ==
    \A w \in 1..Len(units) : Cardinality(KeysOf(activeWorkers, w)) = 1

\* C2: after an authentication-flow unit spawned under H reports
\* authenticated with nickname F # H, the map holds F for that unit, with F
\* recorded as its final handle (depster.js keeps the field; part_000 keeps
\* the name as the key only), holds no key H, and bot-authenticated{H, F}
\* has been emitted.
C2_Reconciliation ==
    (last.op = "authenticated" /\ last.auth /\ last.nick # last.handle) =>
        /\ MapHas(activeWorkers, last.nick)
        /\ MapGet(activeWorkers, last.nick).worker = last.unit
        /\ rev = "depster" =>
               MapGet(activeWorkers, last.nick).finalUsername = last.nick
        /\ ~MapHas(activeWorkers, last.handle)
        /\ \E i \in 1..Len(io) :
               io[i] = Ev("bot-authenticated", last.handle, last.nick)

C2_Witness ==
    /\ last.op = "authenticated" /\ last.auth
    /\ last.handle = "AuthBot-1" /\ last.nick = "Carol"
    /\ Len(units) = 2

\* C3: a spawn under a handle the map already holds creates no unit and
\* leaves the map unchanged; otherwise it creates exactly one unit, registered
\* under the handle with no final handle, and touches no other entry.  This
\* covers the respawn timer firing while the handle is live.
C3_SpawnOnceOrNoOp ==
    [][last'.op \in {"spawn-auth-bot", "timer"} =>
        IF MapHas(activeWorkers, last'.handle)
        THEN activeWorkers' = activeWorkers /\ units' = units
        ELSE /\ Len(units') = Len(units) + 1
             /\ \A w \in 1..Len(units) : units'[w] = units[w]
             /\ units'[Len(units')].username = last'.handle
             /\ units'[Len(units')].isAuthWorker = last'.auth
             /\ Len(activeWorkers') = Len(activeWorkers) + 1
             /\ \A i \in 1..Len(activeWorkers) : activeWorkers'[i] = activeWorkers[i]
             /\ activeWorkers'[Len(activeWorkers')] =
                    [key |-> last'.handle, worker |-> Len(units'),
                     finalUsername |-> null]]_vars

C3_Witness ==
    /\ last.op = "timer" /\ last.had
    /\ MapHas(activeWorkers, last.handle)
    /\ units[MapGet(activeWorkers, last.handle).worker].isAuthWorker

\* C4: every unit exit removes the unit's entry and emits exactly one
\* bot-offline, named by the unit's final handle if one was recorded and by
\* the key it was registered under otherwise.
C4_ExitNotifiesOnce ==
    last.op = "exit" =>
        /\ Cardinality(Emitted("bot-offline")) = 1
        /\ \A i \in Emitted("bot-offline") :
               io[i].a = IF last.recorded # null THEN last.recorded ELSE last.key

\* C5: a respawn is scheduled only by the exit, with a nonzero code, of a
\* unit that was not spawned as an authentication-flow unit.
C5_RespawnOnlyCrashedNonAuth ==
    [][\A k \in Handles :
          timers'[k] > timers[k] =>
              last'.op = "exit" /\ last'.code # 0 /\ ~last'.auth]_vars

C5_Witness ==
    /\ last.op = "exit" /\ last.code # 0 /\ last.auth /\ last.key # null
    /\ \A k \in Handles : timers[k] = 0

\* C6: whenever a non-authentication-flow unit spawned under H exits with a
\* nonzero code, a non-authentication-flow unit is eventually registered
\* under H again.
C6_RespawnLiveness ==
    \A k \in AccountNames :
        (last.op = "exit" /\ ~last.auth /\ last.code # 0 /\ last.handle = k)
        ~> (/\ MapHas(activeWorkers, k)
            /\ ~units[MapGet(activeWorkers, k).worker].isAuthWorker)

\* C7: a clearmap broadcast posts exactly one clearmap message to each unit
\* of the map, the i-th in map order (from 0) carrying the angle 2*pi*i/N,
\* and no two units get the same angle.
C7_ClearmapFanOut ==
    (last.op = "send-command" /\ last.command = "clearmap") =>
        /\ Len(posted) = Len(activeWorkers)
        /\ \A i \in 1..Len(activeWorkers) :
               /\ Cardinality(PostedTo(posted, activeWorkers[i].worker)) = 1
               /\ \A j \in PostedTo(posted, activeWorkers[i].worker) :
                      /\ posted[j].msg.command = "clearmap"
                      /\ AngleIs(posted[j].msg.angle, i - 1, Len(activeWorkers))
        /\ \A j1, j2 \in 1..Len(posted) :
               j1 # j2 => ~SameAngle(posted[j1].msg.angle, posted[j2].msg.angle)

C7_Witness ==
    /\ last.op = "send-command" /\ last.command = "clearmap"
    /\ Len(activeWorkers) = 2
    /\ AngleIs(posted[1].msg.angle, 0, 1)
    /\ AngleIs(posted[2].msg.angle, 1, 2)

\* C8: a broadcast of a command other than clearmap, or of a chat message,
\* posts exactly one message with the command and its parameters to every
\* unit of the map and none to any other unit, and leaves the map unchanged.
C8_Broadcast ==
    [][(\/ last'.op = "send-chat"
        \/ last'.op = "send-command" /\ last'.command \notin {null, "clearmap"}) =>
        /\ activeWorkers' = activeWorkers
        /\ \A w \in 1..Len(units) :
               Cardinality(PostedTo(posted', w)) =
                   IF KeysOf(activeWorkers, w) # {} THEN 1 ELSE 0
        /\ \A j \in 1..Len(posted') :
               /\ posted'[j].to \in 1..Len(units)
               /\ posted'[j].msg =
                      Cmd(last'.command, last'.target, last'.message, NoAngle)]_vars

C8_Witness ==
    /\ last.op = "send-command" /\ last.command = "follow"
    /\ Len(posted) = 2 /\ Len(units) = 2

\* C9: disconnect-all requests the termination of every unit of the map,
\* and the exit of each unit it terminated emits a bot-offline for it.
C9_TerminateAll ==
    /\ last.op = "disconnect-all" =>
           \A i \in 1..Len(activeWorkers) : units[activeWorkers[i].worker].terminated
    /\ (last.op = "exit" /\ last.terminated) =>
           Cardinality(Emitted("bot-offline")) = 1

\* C10: immediately after a spawned unit has processed a 'stop' command,
\* whatever its mode was and whether or not a trap build is suspended, its
\* mode is none, its target is none, isTrapping is false, navigation has
\* been cancelled (pathfinder.stop() was called and no goal is held) and the
\* last message sent is the status 'Idle'.
C10_StopResetsState ==
    (ulast.op = "command" /\ ulast.command = "stop" /\ entity) =>
        /\ state.mode = null
        /\ state.target = null
        /\ state.isTrapping = FALSE
        /\ goal = NoGoal.kind
        /\ \E i \in 1..Len(acts) : acts[i].name = "stop"
        /\ \A i \in 1..Len(acts) : acts[i].name # "setGoal"
        /\ Len(sent) > 0
        /\ sent[Len(sent)] = [type |-> "status-update", text |-> "Idle"]

\* a 'stop' processed in mode trap while the build it started is suspended
\* at an await, with the guard set
C10_Witness ==
    /\ ulast.op = "command" /\ ulast.command = "stop" /\ entity
    /\ ulast.before.mode = "trap" /\ ulast.before.isTrapping
    /\ \E k \in 1..Len(tasks) : tasks[k].kind = "trap"

\* the command handler runs with message msg and reads env
MessageStep(msg, env) == Message(msg, env) /\ UNCHANGED <<rev, supVars>>
\* a mode command the handler rejects: no target, or a name bot.players
\* does not hold
Rejected(msg, env) ==
    msg.command \in ModeCommands /\ (msg.target = null \/ env.seen = "absent")

\* C11: a 'follow', 'grief' or 'trap' command whose target is missing or is
\* not a player the unit knows leaves mode, target, isTrapping and the stored
\* angle as they were, sets and cancels no navigation goal, sends no status
\* update, and sends nothing but one log line (nothing at all before the
\* agent has spawned).
C11_RejectedCommand ==
    [][\A msg \in UnitMessages : \A env \in MessageEnvs(msg) :
          (Rejected(msg, env) /\ MessageStep(msg, env)) =>
              /\ state' = state
              /\ goal' = goal
              /\ acts' = <<>>
              /\ \A i \in 1..Len(sent') : sent'[i].type = "log"
              /\ Len(sent') = IF entity THEN 1 ELSE 0
              /\ alive']_vars

\* a 'grief Bob' that is rejected because Bob is not known, while the unit
\* is in mode trap with a build in flight
C11_Witness ==
    /\ ulast.op = "command" /\ ulast.command = "grief" /\ ulast.target = "Bob"
    /\ ulast.env.seen = "absent" /\ entity
    /\ state.mode = "trap" /\ state.isTrapping /\ state.target = "Bob"
    /\ sent = <<[type |-> "log", text |-> "Can't see target player Bob."]>>

\* a mode command the handler accepts: bot.players holds the name given
Accepted(msg, env) ==
    msg.command \in ModeCommands /\ msg.target # null /\ env.seen # "absent"
StatusUpdates(q) == SelectSeq(q, LAMBDA m : m.type = "status-update")

\* C12: a 'follow', 'grief' or 'trap' command naming a known player, in any
\* prior mode, resets the unit to idle (isTrapping cleared, pathfinder.stop()
\* called, status 'Idle' sent) and then leaves the unit running with mode
\* the command and target the name; the last status it sends is the
\* capitalised command, 'ing' and the name.
C12_AcceptedCommand ==
    [][\A msg \in UnitMessages : \A env \in MessageEnvs(msg) :
          (entity /\ Accepted(msg, env) /\ MessageStep(msg, env)) =>
              /\ alive'
              /\ state'.mode = msg.command
              /\ state'.target = msg.target
              /\ state'.isTrapping = FALSE
              /\ goal' = NoGoal.kind
              /\ \E i \in 1..Len(acts') : acts'[i].name = "stop"
              /\ StatusUpdates(sent') =
                    <<[type |-> "status-update", text |-> "Idle"],
                      [type |-> "status-update",
                       text |-> Capitalised(msg.command) \o "ing " \o msg.target]>>]_vars

\* the physicsTick handler runs and reads env
TickStep(env) == ulast'.op = "tick" /\ Tick(env) /\ UNCHANGED <<rev, supVars>>

\* C13: on a tick in mode follow, grief or trap whose target has no live
\* entity (not in bot.players, or listed without an entity), the unit sets
\* mode to none, sends the status 'Idle' and nothing else, and starts no
\* navigation, dig or placement: no remote action, no goal change, no new
\* suspended invocation; the unit keeps running.
C13_TargetLoss ==
    [][\A env \in TickEnvs :
          (/\ state.mode \in ModeCommands
           /\ ~HasEntity(state.target, env)
           /\ TickStep(env)) =>
              /\ state'.mode = null
              /\ sent' = <<[type |-> "status-update", text |-> "Idle"]>>
              /\ acts' = <<>>
              /\ goal' = goal
              /\ tasks' = tasks
              /\ blocks' = blocks
              /\ alive']_vars

\* the target of a trap vanishes while the build is in flight
C13_Witness ==
    /\ ulast.op = "tick" /\ ulast.env.seen = "listed"
    /\ ulast.before.mode = "trap" /\ ulast.before.isTrapping
    /\ state.mode = null /\ state.target = "Bob"
    /\ tasks # <<>>

\* a suspended trapLogic invocation resumes after its equip or after a
\* placement and runs to the end of the function
BuildCompletes ==
    /\ \E k \in 1..MaxTasks, o \in {"ok", "fail"} :
          (ResumeEquip(k, o) \/ ResumePlace(k, o)) /\ UNCHANGED <<rev, supVars>>
    /\ Len(sent') > 0
    /\ sent'[1] = [type |-> "log",
                   text |-> "Trap for " \o state.target \o " should be complete."]

\* C14: when a build started in mode trap on target T runs to completion
\* and no command was processed since it started (so the guard it set is
\* still set and the target is still T), the mode becomes follow, the target
\* is still T, the last message is the status 'Following T', and isTrapping
\* is cleared.
C14_TrapCompletion ==
    [][(state.isTrapping /\ state.target # null /\ BuildCompletes) =>
          /\ state'.mode = "follow"
          /\ state'.target = state.target
          /\ state'.isTrapping = FALSE
          /\ sent'[Len(sent')] =
                [type |-> "status-update", text |-> "Following " \o state.target]
          /\ alive']_vars

\* a build on Bob that filled both gaps of the wall has just completed
C14_Witness ==
    /\ ulast.op = "place" /\ ulast.outcome = "ok" /\ ulast.before.isTrapping
    /\ state.mode = "follow" /\ state.target = "Bob" /\ ~state.isTrapping
    /\ blocks[<<1, 0, 0>>] = trapBlock /\ blocks[<<1, 1, 0>>] = trapBlock
    /\ tasks = <<>>
    /\ sent[Len(sent)] = [type |-> "status-update", text |-> "Following Bob"]

\* C15: when a trap build that was suspended at an await resumes and
\* finishes after a 'stop' or a new mode command has been processed (the
\* command cleared the guard the build had set), it leaves mode and target
\* as the command set them and sends no status.
C15_CancellationDiscards ==
    [][(~state.isTrapping /\ BuildCompletes) =>
          /\ state'.mode = state.mode
          /\ state'.target = state.target
          /\ StatusUpdates(sent') = <<>>]_vars

\* the positions the last handler turned the agent toward or started to dig
Aimed(name) == {acts[i].arg : i \in {j \in 1..Len(acts) : acts[j].name = name}}

\* C16: whenever the unit turns toward a block or starts to dig one, the
\* position holds a block that is neither protected nor air.
C16_NeverProtectedOrEmpty ==
    \A p \in Aimed("lookAt") \cup Aimed("dig") :
        blockAt(blocks, p) \notin protectedNames \cup {"air", null}

\* the last handler was a griefLogic invocation that passed the rate gate
\* and went on to act (it turned toward a block, to dig it next)
WentOnToAct == \E i \in 1..Len(acts) : acts[i].name = "lookAt"

\* C17: a scan-and-act invocation goes on to act only if at least
\* clickDelay = 1000 / cps has passed since the start of the previous
\* invocation that did, so of two invocations started less than clickDelay
\* apart at most one starts a dig, also while the first is suspended; and
\* the timestamp lastDig is moved only by an invocation that goes on to act.
C17_RateLimit ==
    [][/\ (\E env \in TickEnvs : TickStep(env) /\ WentOnToAct') =>
              ~RateLimited(sinceAct)
       /\ sinceDig' < sinceDig =>
              (\E env \in TickEnvs : TickStep(env)) /\ WentOnToAct']_vars

\* a tick in mode grief, with the target visible and blocks in reach, is
\* refused by the rate gate while the previous invocation is suspended
C17_Witness ==
    /\ ulast.op = "tick" /\ ulast.before.mode = "grief"
    /\ ulast.env.seen = "visible" /\ ulast.env.pos = NearPos
    /\ Candidates(blocks, NearPos) # {}
    /\ sinceAct = 1
    /\ ~WentOnToAct
    /\ \E k \in 1..Len(tasks) : tasks[k].pc = "look"

\* ------------------------------------------- the Structure Planner alone
\* trapLogic applied to a target standing on a platform: the loaded world
\* is the enclosure's box with one more block on every side
PlanPos == {<<x, y, z>> : x \in -2..2, y \in -2..3, z \in -2..2}
\* a solid platform (the whole layer under the target's feet), air
\* everywhere else but for the positions of F, which already hold a block
PlanWorld(F) ==
    [p \in PlanPos |->
        IF p[2] = -1 THEN "stone" ELSE IF p \in F THEN trapBlock ELSE "air"]
\* wall and roof positions that may be built already
PlanFilled == {<<1, 0, 0>>, <<0, 1, 1>>, <<-1, 2, 0>>, <<-1, 0, -1>>}
PlanWorlds == {PlanWorld(F) : F \in SUBSET PlanFilled}

\* trapLogic has been called on a tick in mode trap with the agent within
\* 4.5 of the target and the material in the inventory: the guard is set
\* and the invocation waits for bot.equip
InitPlan ==
    /\ rev \in Revisions
    /\ activeWorkers = <<>>
    /\ units = <<>>
    /\ timers = [k \in Handles |-> 0]
    /\ io = <<>>
    /\ posted = <<>>
    /\ last = LastBase
    /\ alive = TRUE
    /\ entity = TRUE
    /\ state = [InitialState EXCEPT !.mode = "trap", !.target = "Bob",
                                    !.isTrapping = TRUE]
    /\ sinceDig = MaxSince
    /\ sinceAct = MaxSince
    /\ sprint = FALSE
    /\ goal = NoGoal.kind
    /\ inventory = TRUE
    /\ blocks \in PlanWorlds
    /\ tasks = <<Task("trap", "equip", 0, 0, null)>>
    /\ sent = <<>>
    /\ acts = <<[name |-> "equip", arg |-> trapBlock]>>
    /\ ulast = [ULastBase EXCEPT !.op = "tick", !.before.mode = "trap",
                                 !.env = [NoEnv EXCEPT !.seen = "visible"]]

\* the equip and every placement attempt succeed
NextPlan ==
    \/ ResumeEquip(1, "ok") /\ UNCHANGED <<rev, supVars>>
    \/ ResumePlace(1, "ok") /\ UNCHANGED <<rev, supVars>>

SpecPlan == InitPlan /\ [][NextPlan]_vars

OffsetIndex(p) ==
    {i \in 1..Len(trapOffsets) : Plus(TargetPos, trapOffsets[i]) = p}
Solid(b, p) == blockAt(b, p) # null /\ boundingBox(blockAt(b, p)) = "block"
Empty(b, p) == blockAt(b, p) # null /\ boundingBox(blockAt(b, p)) = "empty"
\* the invocation has run to the end of trapLogic
PlanDone == tasks = <<>> /\ ulast.op \in {"equip", "place"} /\ ~state.isTrapping

ReportedFailure ==
    \E k \in 1..MaxTasks :
        (ResumeGrant(k, "reject") \/ ResumeEquip(k, "fail"))
            /\ UNCHANGED <<rev, supVars>>
\* a rejected remote action caught by an empty catch inside the logic
SwallowedFailure ==
    \E k \in 1..MaxTasks :
        (ResumePlace(k, "fail") \/ ResumeLook(k, "fail") \/ ResumeDig(k, "fail"))
            /\ UNCHANGED <<rev, supVars>>
\* the behavior logic itself throws: griefLogic of depster.js
LogicFailure ==
    /\ rev = "depster" /\ state.mode = "grief"
    /\ \E env \in TickEnvs : HasEntity(state.target, env) /\ TickStep(env)
ErrorsSent(q) == SelectSeq(q, LAMBDA m : m.type = "error")

\* C19, as stated: every failure raised during a tick, by any remote action
\* (look, dig, equip, place, inventory grant) or by the logic, is reported
\* as an error event and leaves the unit running.
C19_AllFailuresReported ==
    [][(ReportedFailure \/ SwallowedFailure \/ LogicFailure) =>
          alive' /\ entity' /\ Len(ErrorsSent(sent')) = 1]_vars

\* C19, amended: no failure raised during a tick ends the unit, and ticks
\* and commands go on being processed; a failure of equip, of the inventory
\* grant or of the logic itself is reported as one error event, while a
\* failure of look, dig or place is caught inside the logic and dropped
\* without a report.
C19_TickFaultIsolation ==
    [][/\ (ReportedFailure \/ LogicFailure) =>
              alive' /\ entity' /\ Len(ErrorsSent(sent')) = 1
       /\ SwallowedFailure =>
              alive' /\ entity' /\ ErrorsSent(sent') = <<>>]_vars

\* bot.equip has rejected during a build: the error is reported and the
\* unit runs on
C19_Witness ==
    /\ ulast.op = "equip" /\ ulast.outcome = "fail"
    /\ alive /\ entity /\ state.mode = "trap"
    /\ Len(ErrorsSent(sent)) = 1

\* C20: a status-update sent by a unit that is in the identity map is
\* forwarded as exactly one bot-status-update with the same status, named
\* by the unit's own final handle if the unit has reported one to the
\* supervisor and by its initial handle otherwise.
C20_StatusForwarding ==
    (last.op = "status-update" /\ last.key # null) =>
        /\ Cardinality(Emitted("bot-status-update")) = 1
        /\ \A i \in Emitted("bot-status-update") :
              /\ io[i].b = last.message
              /\ io[i].a = IF last.recorded # null THEN last.recorded ELSE last.handle

ActsNamed(q, name) == {i \in 1..Len(q) : q[i].name = name}

\* C22: on a tick in mode grief with a live target the unit sets a
\* navigation goal toward the target; and if some block that is neither air
\* nor protected lies in the scan cube within maxDig of the agent and the
\* click delay has passed, it turns toward exactly one block, one of least
\* distance from the agent among those candidates, and the invocation is
\* left to dig that block.
C22_GriefTick ==
    [][\A env \in TickEnvs :
          (state.mode = "grief" /\ HasEntity(state.target, env) /\ TickStep(env)) =>
              /\ ActsNamed(acts', "setGoal") # {}
              /\ goal' # NoGoal.kind
              /\ (Candidates(blocks, env.pos) # {} /\ ~RateLimited(sinceDig)) =>
                    /\ Cardinality(ActsNamed(acts', "lookAt")) = 1
                    /\ \A i \in ActsNamed(acts', "lookAt") :
                          /\ acts'[i].arg \in Candidates(blocks, env.pos)
                          /\ \A q \in Candidates(blocks, env.pos) :
                                Dist2(env.pos, acts'[i].arg) <= Dist2(env.pos, q)
                          /\ \E k \in 1..Len(tasks') :
                                /\ tasks'[k].kind = "grief"
                                /\ tasks'[k].at = acts'[i].arg]_vars

\* the trapLogic invocations suspended between acquiring the material and
\* the last placement
BuildsInFlight == {k \in 1..Len(tasks) : tasks[k].kind = "trap"}

\* C23: at most one Structure Planner build of the unit is in flight at any
\* time, whatever ticks and commands are interleaved with it.
C23_BuildMutualExclusion == Cardinality(BuildsInFlight) <= 1

\* getBlockInHand gives trapLogic no item after asking for a stack: the
\* grant resolved without the item appearing in the inventory, or it was
\* rejected
GrantFailure(k, o) ==
    /\ ulast'.op = "grant"
    /\ ResumeGrant(k, o) /\ UNCHANGED <<rev, supVars>>
\* getBlockInHand gives trapLogic no item at once: nothing in the inventory
\* and bot.creative not set
NoMaterial(env) ==
    /\ state.mode = "trap" /\ HasEntity(state.target, env) /\ ~state.isTrapping
    /\ 4 * Dist2(env.pos, TargetPos) <= 81
    /\ ~inventory /\ ~env.creative
    /\ TickStep(env)
Aborted ==
    /\ ActsNamed(acts', "placeBlock") = {}
    /\ ActsNamed(acts', "equip") = {}
    /\ blocks' = blocks
    /\ state'.mode = null
    /\ state'.isTrapping = FALSE
    /\ Len(sent') > 0
    /\ sent'[Len(sent')] = [type |-> "status-update", text |-> "Idle"]
    /\ alive'

\* C24: when the planner, in range of the target, cannot obtain a unit of
\* the building material (none in the inventory, and no privilege to be
\* granted one or the grant fails), it places no block, sets mode to none,
\* leaves isTrapping false, and the last message it sends is the status
\* 'Idle'; the invocation has ended.
C24_MaterialFailureAbort ==
    [][/\ \A k \in 1..MaxTasks, o \in {"noitem", "reject"} :
             GrantFailure(k, o) =>
                 /\ Aborted
                 /\ Cardinality(BuildsInFlight') = Cardinality(BuildsInFlight) - 1
       /\ \A env \in TickEnvs :
             NoMaterial(env) => Aborted /\ tasks' = tasks]_vars

\* the grant was rejected during a build on Bob: the unit is idle again,
\* with the guard clear and nothing placed
C24_Witness ==
    /\ ulast.op = "grant" /\ ulast.outcome = "reject"
    /\ ulast.before.mode = "trap" /\ ulast.before.isTrapping
    /\ state.mode = null /\ ~state.isTrapping
    /\ tasks = <<>> /\ acts = <<>>
    /\ sent[Len(sent)] = [type |-> "status-update", text |-> "Idle"]

\* the command handler processes a command other than 'chat'
Commanded ==
    \E msg \in UnitMessages :
        /\ msg.command # "chat"
        /\ \E env \in MessageEnvs(msg) : MessageStep(msg, env)

\* C25: a unit in mode clearmap stays in mode clearmap with the angle it
\* stored, whatever happens, until it processes a 'stop', a mode command or
\* another 'clearmap' (or its connection ends); a tick in that mode on which
\* the pathfinder is not moving sets one goal, 10,000 from the agent's
\* position along the stored angle, and a tick on which it is moving sets
\* none.
C25_SweepPersistence ==
    [][/\ (state.mode = "clearmap" /\ alive' /\ ~Commanded) =>
              /\ state'.mode = "clearmap"
              /\ state'.clearMapAngle = state.clearMapAngle
       /\ \A env \in TickEnvs :
              (state.mode = "clearmap" /\ TickStep(env)) =>
                  IF env.moving
                  THEN ActsNamed(acts', "setGoal") = {}
                  ELSE /\ Cardinality(ActsNamed(acts', "setGoal")) = 1
                       /\ \A i \in ActsNamed(acts', "setGoal") :
                             acts'[i].arg = GoalXZ(env.pos, state.clearMapAngle)]_vars

\* C26: a fault event of a unit leaves the identity map, the units and the
\* pending respawns as they were and emits no bot-offline; and a spawn
\* request or respawn timer that comes next, for a handle the map holds,
\* creates no unit and leaves the map unchanged.
C26_FaultIsNotExit ==
    [][/\ last'.op = "error" =>
              /\ activeWorkers' = activeWorkers
              /\ units' = units
              /\ timers' = timers
              /\ \A i \in 1..Len(io') : io'[i].type # "bot-offline"
       /\ (/\ last.op = "error"
           /\ last'.op \in {"spawn-auth-bot", "timer"}
           /\ MapHas(activeWorkers, last'.handle)) =>
              activeWorkers' = activeWorkers /\ units' = units]_vars

\* a fault of the unit registered under 'Bob' while a respawn of 'Bob' is
\* pending: the entry is still there for the timer to find
C26_Witness ==
    /\ last.op = "error"
    /\ MapHas(activeWorkers, "Bob")
    /\ MapGet(activeWorkers, "Bob").worker = last.unit
    /\ timers["Bob"] = 1
    /\ io = <<Log("System", "Worker error")>>

\* C27: the guard isTrapping is set only while a Structure Planner build
\* of the unit is in flight.
C27_GuardNeverStuck == state.isTrapping => BuildsInFlight # {}

\* C28: the exit of a unit that disconnect-all terminated (reported with a
\* nonzero code) schedules no respawn, and no respawn timer that fires after
\* such an exit registers a unit again: with no spawn request the identity
\* map, once emptied by the exits, stays empty.
C28_DisconnectAllFinal ==
    [][/\ (last'.op = "exit" /\ last'.terminated) => timers' = timers
       /\ (last.op = "exit" /\ last.terminated /\ last'.op = "timer") =>
              activeWorkers' = activeWorkers /\ units' = units]_vars

\* C29: a command that reaches the unit before its agent has spawned in the
\* world changes nothing of the behavior state, of the navigation and of
\* the suspended invocations, starts no remote action and sends nothing;
\* and the spawn that follows replays nothing: it leaves the behavior state
\* as createBot set it, starts no remote action, and sends only its own
\* messages, the last being the status 'Idle'.
C29_DroppedBeforeReady ==
    [][/\ \A msg \in UnitMessages : \A env \in MessageEnvs(msg) :
             (~entity /\ MessageStep(msg, env)) =>
                 /\ state' = state
                 /\ goal' = goal /\ sprint' = sprint
                 /\ tasks' = tasks
                 /\ acts' = <<>>
                 /\ sent' = <<>>
                 /\ ~entity' /\ alive'
       /\ (~entity /\ entity') =>
             /\ state' = InitialState
             /\ goal' = NoGoal.kind /\ tasks' = <<>>
             /\ acts' = <<>>
             /\ StatusUpdates(sent') = <<[type |-> "status-update", text |-> "Idle"]>>
             /\ \A i \in 1..Len(sent') :
                   sent'[i].type = "log" => sent'[i].text = "Bot online."]_vars

\* a 'trap Bob' has reached the unit before its agent spawned
C29_Witness ==
    /\ ulast.op = "command" /\ ulast.command = "trap" /\ ulast.target = "Bob"
    /\ alive /\ ~entity
    /\ state = InitialState /\ sent = <<>> /\ acts = <<>>

====
